---- MODULE Spec2Model ----
(***************************************************************************)
(* Model of tauri-plugin-mcp-bridge:                                       *)
(*   screenshot/mod.rs          capture -> ceiling -> resize -> transcode  *)
(*                              -> data URI pipeline                       *)
(*   commands/resize_window.rs  the window resize command                  *)
(*   discovery.rs               the port discovery scan                    *)
(*                                                                         *)
(* Option<T> is a set with at most one element: {} is None, {v} is Some(v).*)
(* Result<T, E> is a record [ok |-> TRUE, val |-> v] or                    *)
(* [ok |-> FALSE, err |-> e].                                              *)
(*                                                                         *)
(* An encoded image (Vec<u8>) is a byte sequence in a 4-byte container:    *)
(* <<magic, width, height, rest>>, magic 137 (first byte of a PNG file) or *)
(* 255 (first byte of a JPEG file); `rest` stands for the remainder of the *)
(* encoded stream (the compressor's choices, or the JPEG quality).  Any    *)
(* other byte sequence does not decode.                                    *)
(***************************************************************************)
EXTENDS Integers, Sequences, FiniteSets, TLC

VARIABLES
    platform,            \* target_os the plugin was built for
    env,                 \* process environment: TAURI_MCP_SCREENSHOT_MAX_WIDTH
    format,              \* capture_viewport_screenshot argument
    quality,             \* capture_viewport_screenshot argument (u8)
    max_width,           \* capture_viewport_screenshot argument (Option<u32>)
    pc,                  \* position inside capture_viewport_screenshot
    raw,                 \* screenshot.data as the provider returned it
    effective_max_width, \* Option<u32> resolved at line 170
    data,                \* the buffer handed from stage to stage
    result,              \* Option<Result<String, ScreenshotError>>
    log,                 \* stages entered so far, in order
    work,                \* codec operations performed so far, in order
    windows,             \* label -> window state held by the Tauri runtime
    win_result,          \* Option<Result<ResizeWindowResult, String>>
    win_call,            \* the last resize_window request
    base_port,           \* find_available_port argument (u16)
    bound,               \* ports on which TcpListener::bind fails
    profile,             \* build profile: overflow checks on ("debug") or off
    port_result          \* Option: outcome of find_available_port

shot_vars == <<env, format, quality, max_width, pc, raw,
               effective_max_width, data, result, log, work>>
win_vars  == <<windows, win_result, win_call>>
port_vars == <<base_port, bound, profile, port_result>>
vars == <<platform, shot_vars, win_vars, port_vars>>

----------------------------------------------------------------------------
(* Bounds of the model *)

\* Largest width and height of a captured image.
MaxDim == 7

\* Number of ports next to base_port whose bound/free status is varied.
MaxFreeOffset == 3

\* Largest width and height a resize_window request asks for.
MaxSize == 2

----------------------------------------------------------------------------
(* Rust helpers *)

None == {}
Some(v) == {v}
IsSome(o) == o # {}
Unwrap(o) == CHOOSE v \in o : TRUE

Ok(v) == [ok |-> TRUE, val |-> v]
Err(e) == [ok |-> FALSE, err |-> e]

Max(a, b) == IF a >= b THEN a ELSE b

\* f64::round of the non-negative quotient a / b: half rounds away from zero.
\* The quotients formed below are exact in this arithmetic; the f64
\* evaluation agrees with it for every width and height up to 21.
RoundDiv(a, b) == (2 * a + b) \div (2 * b)

----------------------------------------------------------------------------
(* screenshot/mod.rs *)

ScreenshotError(kind, msg) == [kind |-> kind, msg |-> msg]

Digits == {"0", "1", "2", "3", "4", "5", "6", "7", "8", "9"}

DigitVal(c) ==
    CASE c = "0" -> 0 [] c = "1" -> 1 [] c = "2" -> 2 [] c = "3" -> 3
      [] c = "4" -> 4 [] c = "5" -> 5 [] c = "6" -> 6 [] c = "7" -> 7
      [] c = "8" -> 8 [] c = "9" -> 9

\* The decimal digits of u32::MAX, 4294967295.
U32MaxDigits == <<4, 2, 9, 4, 9, 6, 7, 2, 9, 5>>

RECURSIVE StripZeros(_)
StripZeros(ds) ==
    IF ds # <<>> /\ Head(ds) = 0 THEN StripZeros(Tail(ds)) ELSE ds

\* ds > es for two digit sequences of the same length.
RECURSIVE DigitsGreater(_, _)
DigitsGreater(ds, es) ==
    IF ds = <<>> THEN FALSE
    ELSE IF Head(ds) # Head(es) THEN Head(ds) > Head(es)
    ELSE DigitsGreater(Tail(ds), Tail(es))

RECURSIVE DigitsValue(_, _)
DigitsValue(ds, acc) ==
    IF ds = <<>> THEN acc ELSE DigitsValue(Tail(ds), acc * 10 + Head(ds))

\* The digit loop of u32::from_str (checked_mul(10) then checked_add(digit)
\* per character): any non-digit is InvalidDigit, a value above u32::MAX is
\* PosOverflow; both are None after .ok().  The overflow test compares
\* digit sequences, so that no intermediate value exceeds TLC's 32-bit
\* integers; the strings of EnvStrings that parse are below 2^31.
ParseDigits(s) ==
    IF \E i \in 1..Len(s) : s[i] \notin Digits THEN None
    ELSE LET ds == StripZeros([i \in 1..Len(s) |-> DigitVal(s[i])])
         IN  IF \/ Len(ds) > Len(U32MaxDigits)
                \/ Len(ds) = Len(U32MaxDigits) /\ DigitsGreater(ds, U32MaxDigits)
             THEN None
             ELSE Some(DigitsValue(ds, 0))

\* s.parse::<u32>().ok(): the empty string, a lone sign, and a leading "-"
\* are errors; one leading "+" is accepted.
ParseU32(s) ==
    IF s = <<>> THEN None
    ELSE IF Len(s) = 1 /\ Head(s) \in {"+", "-"} THEN None
    ELSE IF Head(s) = "+" THEN ParseDigits(Tail(s))
    ELSE ParseDigits(s)

\* env::var(ENV_MAX_WIDTH).ok(): Some(string) when the variable is set to
\* valid unicode, None when it is unset or not unicode.
EnvVar(e) == IF e.state = "set" THEN Some(e.value) ELSE None

\* Mutant of get_effective_max_width: the environment default wins.
get_effective_max_width_envfirst(param, e) ==
    LET v == EnvVar(e)
        parsed == IF IsSome(v) THEN ParseU32(Unwrap(v)) ELSE None
    IN  IF IsSome(parsed) THEN parsed ELSE param

get_effective_max_width(param, e) ==
    IF IsSome(param) THEN param
    ELSE LET v == EnvVar(e)
         IN  IF IsSome(v) THEN ParseU32(Unwrap(v)) ELSE None

\* image::load_from_memory: the format is guessed from the leading bytes.
load_from_memory(bytes) ==
    IF /\ Len(bytes) = 4
       /\ bytes[1] \in {137, 255}
       /\ bytes[2] >= 1
       /\ bytes[3] >= 1
    THEN Ok([w |-> bytes[2], h |-> bytes[3]])
    ELSE Err("invalid image data")

\* write_to(.., ImageFormat::Png): the encoder's stream for these pixels.
PngEncode(img) == <<137, img.w, img.h, 1>>

\* JpegEncoder::new_with_quality(.., quality) then write_with_encoder.
JpegEncode(img, q) == <<255, img.w, img.h, q>>

convert_to_jpeg(png_data, q, jpeg_ok) ==
    LET img == load_from_memory(png_data)
    IN  IF ~img.ok
        THEN [res |-> Err(ScreenshotError("EncodeFailed", "Failed to decode PNG")),
              work |-> <<"decode">>]
        ELSE IF ~jpeg_ok
        THEN [res |-> Err(ScreenshotError("EncodeFailed", "Failed to encode JPEG")),
              work |-> <<"decode", "encode_jpeg">>]
        ELSE [res |-> Ok(JpegEncode(img.val, q)),
              work |-> <<"decode", "encode_jpeg">>]

\* DynamicImage::resize(nwidth, nheight, filter) of the image crate: scales
\* to the largest size that fits in nwidth x nheight keeping the aspect
\* ratio, and never below 1 pixel (resize_dimensions with fill = false; its
\* two branches for a result above u32::MAX cannot be taken when fill is
\* false, since the result is then at most nwidth x nheight).
resize_dimensions(width, height, nwidth, nheight) ==
    LET use_w == nwidth * height <= nheight * width  \* wratio <= hratio
        nw == IF use_w THEN Max(RoundDiv(width * nwidth, width), 1)
                       ELSE Max(RoundDiv(width * nheight, height), 1)
        nh == IF use_w THEN Max(RoundDiv(height * nwidth, width), 1)
                       ELSE Max(RoundDiv(height * nheight, height), 1)
    IN  [w |-> nw, h |-> nh]

\* Mutant of resize_if_needed: the early return is taken whatever the width.
resize_if_needed_never(bytes, ceiling, png_ok) ==
    LET img == load_from_memory(bytes)
    IN  IF ~img.ok
        THEN [res |-> Err(ScreenshotError("ResizeFailed", "Failed to decode image")),
              work |-> <<"decode">>]
        ELSE [res |-> Ok(bytes), work |-> <<"decode">>]

\* Mutant of resize_if_needed: `<` for `<=` in the early return.
resize_if_needed_strict(bytes, ceiling, png_ok) ==
    LET img == load_from_memory(bytes)
    IN  IF ~img.ok
        THEN [res |-> Err(ScreenshotError("ResizeFailed", "Failed to decode image")),
              work |-> <<"decode">>]
        ELSE IF img.val.w < ceiling
        THEN [res |-> Ok(bytes), work |-> <<"decode">>]
        ELSE LET nh == RoundDiv(img.val.h * ceiling, img.val.w)
                 resized == resize_dimensions(img.val.w, img.val.h, ceiling, nh)
             IN  IF ~png_ok
                 THEN [res |-> Err(ScreenshotError("ResizeFailed", "Failed to encode PNG")),
                       work |-> <<"decode", "resample", "encode_png">>]
                 ELSE [res |-> Ok(PngEncode(resized)),
                       work |-> <<"decode", "resample", "encode_png">>]

resize_if_needed(bytes, ceiling, png_ok) ==
    LET img == load_from_memory(bytes)
    IN  IF ~img.ok
        THEN [res |-> Err(ScreenshotError("ResizeFailed", "Failed to decode image")),
              work |-> <<"decode">>]
        ELSE LET current_width == img.val.w
             IN  IF current_width <= ceiling
                 THEN [res |-> Ok(bytes), work |-> <<"decode">>]
                 ELSE LET current_height == img.val.h
                          \* scale = ceiling / current_width
                          new_height == RoundDiv(current_height * ceiling, current_width)
                          resized == resize_dimensions(current_width, current_height,
                                                       ceiling, new_height)
                      IN  IF ~png_ok
                          THEN [res |-> Err(ScreenshotError("ResizeFailed",
                                                            "Failed to encode PNG")),
                                work |-> <<"decode", "resample", "encode_png">>]
                          ELSE [res |-> Ok(PngEncode(resized)),
                                work |-> <<"decode", "resample", "encode_png">>]

\* Mutant of convert_format: a PNG request is decoded and encoded again.
convert_format_always(bytes, fmt, q, jpeg_ok) ==
    IF fmt = "png"
    THEN LET img == load_from_memory(bytes)
         IN  IF ~img.ok
             THEN [res |-> Err(ScreenshotError("EncodeFailed", "Failed to decode PNG")),
                   work |-> <<"decode">>]
             ELSE [res |-> Ok(PngEncode(img.val)), work |-> <<"decode", "encode_png">>]
    ELSE convert_to_jpeg(bytes, q, jpeg_ok)

convert_format(bytes, fmt, q, jpeg_ok) ==
    IF fmt = "png"
    THEN [res |-> Ok(bytes), work |-> <<>>]
    ELSE convert_to_jpeg(bytes, q, jpeg_ok)

\* Lines 180-184.
mime_type(fmt) == IF fmt = "jpeg" THEN "image/jpeg" ELSE "image/png"

\* base64::engine::general_purpose::STANDARD: the alphabet, "=" padding.
B64Alphabet ==
    <<"A", "B", "C", "D", "E", "F", "G", "H", "I", "J", "K", "L", "M",
      "N", "O", "P", "Q", "R", "S", "T", "U", "V", "W", "X", "Y", "Z",
      "a", "b", "c", "d", "e", "f", "g", "h", "i", "j", "k", "l", "m",
      "n", "o", "p", "q", "r", "s", "t", "u", "v", "w", "x", "y", "z",
      "0", "1", "2", "3", "4", "5", "6", "7", "8", "9", "+", "/">>

B64Char(sextet) == B64Alphabet[sextet + 1]

RECURSIVE Base64Encode(_)
Base64Encode(bytes) ==
    IF Len(bytes) = 0 THEN <<>>
    ELSE IF Len(bytes) = 1
    THEN <<B64Char(bytes[1] \div 4), B64Char((bytes[1] % 4) * 16), "=", "=">>
    ELSE IF Len(bytes) = 2
    THEN <<B64Char(bytes[1] \div 4),
           B64Char((bytes[1] % 4) * 16 + bytes[2] \div 16),
           B64Char((bytes[2] % 16) * 4), "=">>
    ELSE <<B64Char(bytes[1] \div 4),
           B64Char((bytes[1] % 4) * 16 + bytes[2] \div 16),
           B64Char((bytes[2] % 16) * 4 + bytes[3] \div 64),
           B64Char(bytes[3] % 64)>>
         \o Base64Encode(SubSeq(bytes, 4, Len(bytes)))

\* format!("data:{mime_type};base64,{base64_data}")
DataUrl(mime, bytes) == <<"data:", mime, ";base64,">> \o Base64Encode(bytes)

\* Build targets: the five with a capture module, and one without.
SupportedOS == {"macos", "windows", "linux", "ios", "android"}
TargetOS == {"linux", "freebsd"}

\* <os>::capture_viewport(window): raw PNG bytes of a capture of at least
\* 1x1, bytes the image decoder rejects, or CaptureFailed.
capture_viewport ==
    {Ok(<<137, w, h, 0>>) : w \in 1..MaxDim, h \in 1..MaxDim}
        \cup {Ok(<<137, 80>>)}
        \cup {Err(ScreenshotError("CaptureFailed", "no image data"))}

Formats == {"png", "jpeg", "jpg"}
Qualities == {0, 80}
\* max_width: None, every value around the captured widths, and a value far
\* above them (2^31 - 1, the largest integer TLC holds).
MaxWidthParams ==
    {None} \cup {Some(n) : n \in 0..(MaxDim + 1)} \cup {Some(2147483647)}

EnvStrings ==
    { <<>>, <<"0">>, <<"3">>, <<"+", "3">>, <<"-", "3">>, <<"3", "x">>,
      <<" ", "3">>, <<"+">>,
      <<"0", "0", "5">>,
      <<"2", "1", "4", "7", "4", "8", "3", "6", "4", "7">>,
      <<"4", "2", "9", "4", "9", "6", "7", "2", "9", "6">>,
      <<"9", "9", "9", "9", "9", "9", "9", "9", "9", "9", "9">> }
EnvValues ==
    {[state |-> "unset", value |-> <<>>], [state |-> "not_unicode", value |-> <<>>]}
        \cup {[state |-> "set", value |-> s] : s \in EnvStrings}

ShotIdle ==
    /\ env = [state |-> "unset", value |-> <<>>]
    /\ format = "png" /\ quality = 0 /\ max_width = None
    /\ pc = "idle" /\ raw = <<>> /\ effective_max_width = None
    /\ data = <<>> /\ result = None /\ log = <<>> /\ work = <<>>

\* A call of capture_viewport_screenshot(window, format, quality, max_width).
ShotInit ==
    /\ platform \in TargetOS
    /\ env \in EnvValues
    /\ format \in Formats
    /\ quality \in Qualities
    /\ max_width \in MaxWidthParams
    /\ pc = "capture"
    /\ raw = <<>>
    /\ effective_max_width = None
    /\ data = <<>>
    /\ result = None
    /\ log = <<>>
    /\ work = <<>>

\* Mutant of Fail: the orchestrator reports every failure as CaptureFailed.
Fail_translated(e) ==
    /\ result' = Some(Err(ScreenshotError("CaptureFailed", e.msg)))
    /\ pc' = "done"

\* The `?` of lines 146-177: the stage's error is the function's result.
Fail(e) ==
    /\ result' = Some(Err(e))
    /\ pc' = "done"

\* Lines 144-167: the platform dispatch, with `?` on its result.
Capture ==
    /\ pc = "capture"
    /\ log' = Append(log, "capture")
    /\ IF platform \notin SupportedOS
       THEN /\ Fail(ScreenshotError("PlatformUnsupported", ""))
            /\ UNCHANGED <<raw, data>>
       ELSE \E screenshot \in capture_viewport :
              IF screenshot.ok
              THEN /\ raw' = screenshot.val
                   /\ data' = screenshot.val
                   /\ pc' = "resolve"
                   /\ UNCHANGED result
              ELSE /\ Fail(screenshot.err)
                   /\ UNCHANGED <<raw, data>>
    /\ UNCHANGED <<platform, env, format, quality, max_width,
                   effective_max_width, work, win_vars, port_vars>>

\* Line 170, and the match of line 171 that selects the next stage.
Resolve ==
    /\ pc = "resolve"
    /\ log' = Append(log, "resolve")
    /\ effective_max_width' = get_effective_max_width(max_width, env)
    /\ pc' = IF IsSome(effective_max_width') THEN "resize" ELSE "transcode"
    /\ UNCHANGED <<platform, env, format, quality, max_width, raw, data,
                   result, work, win_vars, port_vars>>

\* Line 172: resize_if_needed(screenshot.data, max_w)?
Resize ==
    /\ pc = "resize"
    /\ log' = Append(log, "resize")
    /\ \E png_ok \in BOOLEAN :
         LET r == resize_if_needed(data, Unwrap(effective_max_width), png_ok)
         IN  /\ work' = work \o r.work
             /\ IF r.res.ok
                THEN /\ data' = r.res.val
                     /\ pc' = "transcode"
                     /\ UNCHANGED result
                ELSE /\ Fail(r.res.err)
                     /\ UNCHANGED data
    /\ UNCHANGED <<platform, env, format, quality, max_width, raw,
                   effective_max_width, win_vars, port_vars>>

\* Line 177: convert_format(resized_data, format, quality)?
Transcode ==
    /\ pc = "transcode"
    /\ log' = Append(log, "transcode")
    /\ \E jpeg_ok \in BOOLEAN :
         LET r == convert_format(data, format, quality, jpeg_ok)
         IN  /\ work' = work \o r.work
             /\ IF r.res.ok
                THEN /\ data' = r.res.val
                     /\ pc' = "package"
                     /\ UNCHANGED result
                ELSE /\ Fail(r.res.err)
                     /\ UNCHANGED data
    /\ UNCHANGED <<platform, env, format, quality, max_width, raw,
                   effective_max_width, win_vars, port_vars>>

\* Lines 179-190: the MIME label, base64, the data URL, Ok(data_url).
Package ==
    /\ pc = "package"
    /\ log' = Append(log, "package")
    /\ result' = Some(Ok(DataUrl(mime_type(format), data)))
    /\ pc' = "done"
    /\ UNCHANGED <<platform, env, format, quality, max_width, raw,
                   effective_max_width, data, work, win_vars, port_vars>>

ShotNext == Capture \/ Resolve \/ Resize \/ Transcode \/ Package

----------------------------------------------------------------------------
(* commands/resize_window.rs *)

DesktopOS == {"macos", "windows", "linux"}
MobileOS == {"ios", "android"}

Labels == {"main", "settings"}
WindowIds == {None} \cup {Some(l) : l \in Labels \cup {"ghost"}}

\* ResizeWindowParams
Params ==
    [width : 0..MaxSize, height : 0..MaxSize, window_id : WindowIds,
     logical : BOOLEAN]

\* What the runtime holds for a window: is_resizable() answers "yes", "no"
\* or fails ("error"); size is the last size set_size applied, if any.
WindowStates == [resizable : {"yes", "no", "error"}, size : {None}]

\* list_windows::resolve_window(&app, window_id): the window labelled
\* window_id, "main" when window_id is None, or an error when no window has
\* that label.
resolve_window(wins, window_id) ==
    LET label == IF IsSome(window_id) THEN Unwrap(window_id) ELSE "main"
    IN  IF label \in DOMAIN wins
        THEN Ok(label)
        ELSE Err(<<"Window not found: ", label>>)

ResizeWindowResult(success, window_label, params, error) ==
    [success |-> success, window_label |-> window_label,
     width |-> params.width, height |-> params.height,
     logical |-> params.logical, error |-> error]

\* window.is_resizable().unwrap_or(true)
is_resizable(w) == IF w.resizable = "error" THEN TRUE ELSE w.resizable = "yes"

\* Mutant of resize_window_desktop: no check of is_resizable before set_size.
resize_window_desktop_unchecked(wins, params, set_size_ok) ==
    LET window_label == IF IsSome(params.window_id)
                        THEN Unwrap(params.window_id) ELSE "main"
        window == resolve_window(wins, params.window_id)
    IN  IF ~window.ok
        THEN [res |-> Err(window.err), set |-> None]
        ELSE IF set_size_ok
        THEN [res |-> Ok(ResizeWindowResult(TRUE, window_label, params, None)),
              set |-> Some(window.val)]
        ELSE [res |-> Ok(ResizeWindowResult(FALSE, window_label, params,
                             Some(<<"Failed to resize window: ", "set_size error">>))),
              set |-> None]

\* #[cfg(desktop)] resize_window; set_size_ok is the outcome of
\* window.set_size.  `set` is the window whose size was changed, if any.
resize_window_desktop(wins, params, set_size_ok) ==
    LET window_label == IF IsSome(params.window_id)
                        THEN Unwrap(params.window_id) ELSE "main"
        window == resolve_window(wins, params.window_id)
    IN  IF ~window.ok
        THEN [res |-> Err(window.err), set |-> None]
        ELSE IF ~is_resizable(wins[window.val])
        THEN [res |-> Ok(ResizeWindowResult(FALSE, window_label, params,
                                            Some(<<"Window is not resizable">>))),
              set |-> None]
        ELSE IF set_size_ok
        THEN [res |-> Ok(ResizeWindowResult(TRUE, window_label, params, None)),
              set |-> Some(window.val)]
        ELSE [res |-> Ok(ResizeWindowResult(FALSE, window_label, params,
                             Some(<<"Failed to resize window: ", "set_size error">>))),
              set |-> None]

\* #[cfg(mobile)] resize_window
resize_window_mobile(wins, params, set_size_ok) ==
    LET window_label == IF IsSome(params.window_id)
                        THEN Unwrap(params.window_id) ELSE "main"
    IN  [res |-> Ok(ResizeWindowResult(FALSE, window_label, params,
                 Some(<<"Window resizing is not supported on mobile platforms (Android/iOS). The window size is controlled by the operating system.">>))),
         set |-> None]

resize_window(os, wins, params, set_size_ok) ==
    IF os \in MobileOS
    THEN resize_window_mobile(wins, params, set_size_ok)
    ELSE resize_window_desktop(wins, params, set_size_ok)

WinIdle ==
    /\ windows = [l \in {"main"} |-> [resizable |-> "yes", size |-> None]]
    /\ win_result = None
    /\ win_call = None

\* The application has a "main" window and possibly a "settings" window.
WinInit ==
    /\ platform \in {"linux", "android"}
    /\ \E ls \in {{"main"}, Labels} : windows \in [ls -> WindowStates]
    /\ win_result = None
    /\ win_call = None

ResizeWindow ==
    /\ win_result = None
    /\ \E params \in Params, set_size_ok \in BOOLEAN :
         LET r == resize_window(platform, windows, params, set_size_ok)
         IN  /\ win_call' = Some(params)
             /\ win_result' = Some(r.res)
             /\ windows' =
                  IF IsSome(r.set)
                  THEN [windows EXCEPT ![Unwrap(r.set)].size =
                           Some([width |-> params.width, height |-> params.height,
                                 logical |-> params.logical])]
                  ELSE windows
    /\ UNCHANGED <<platform, shot_vars, port_vars>>

WinNext == ResizeWindow

----------------------------------------------------------------------------
(* discovery.rs *)

max_attempts == 100

U16Modulus == 65536

\* TcpListener::bind(format!("{bind_address}:{port}")).is_ok()
is_port_available(bnd, port) == port \notin bnd

\* base_port + offset is u16 arithmetic: past 65535 it panics where overflow
\* checks are compiled in ("debug") and wraps where they are not ("release").
overflows(base, offset) == base + offset >= U16Modulus

\* The for loop of find_available_port.  `exits` holds the iterations that
\* leave the loop when reached: the addition panics, or the port is
\* available; the loop leaves at the least of them, and falls through to
\* `base_port` when there is none.
find_available_port(base, bnd, prof) ==
    LET exits == {offset \in 0..(max_attempts - 1) :
                     \/ overflows(base, offset) /\ prof = "debug"
                     \/ is_port_available(bnd, (base + offset) % U16Modulus)}
    IN  IF exits = {}
        THEN [kind |-> "returned", port |-> base]
        ELSE LET offset == CHOOSE o \in exits : \A x \in exits : o <= x
             IN  IF overflows(base, offset) /\ prof = "debug"
                 THEN [kind |-> "panicked", port |-> base]
                 ELSE [kind |-> "returned", port |-> (base + offset) % U16Modulus]

BasePorts == {9223, 9400, 65435, 65436, 65437, 65535}

\* Offsets from base_port whose port may be free; every other port of
\* base_port .. base_port + max_attempts is bound.
FreeOffsets == (0..MaxFreeOffset) \cup {max_attempts - 1, max_attempts}

PortIdle ==
    /\ base_port = 9223
    /\ bound = {}
    /\ profile = "debug"
    /\ port_result = None

PortInit ==
    /\ base_port \in BasePorts
    /\ \E free \in SUBSET FreeOffsets :
         bound = {(base_port + o) % U16Modulus : o \in (0..max_attempts) \ free}
    /\ profile \in {"debug", "release"}
    /\ port_result = None

FindAvailablePort ==
    /\ port_result = None
    /\ port_result' = Some(find_available_port(base_port, bound, profile))
    /\ UNCHANGED <<base_port, bound, profile, platform, shot_vars, win_vars>>

PortNext == FindAvailablePort

----------------------------------------------------------------------------
(* Specifications *)

\* One call of capture_viewport_screenshot.
Init == ShotInit /\ WinIdle /\ PortIdle
Next == ShotNext
Spec == Init /\ [][Next]_vars

\* One call of resize_window.
InitWindow == WinInit /\ ShotIdle /\ PortIdle
SpecWindow == InitWindow /\ [][WinNext]_vars

\* One call of find_available_port.
InitPort == PortInit /\ platform = "linux" /\ ShotIdle /\ WinIdle
SpecPort == InitPort /\ [][PortNext]_vars

----------------------------------------------------------------------------
(* Properties of the screenshot pipeline (specification Spec) *)

Last(seq) == seq[Len(seq)]

\* The resize stage has just returned Ok: `raw` is its input, `data` its
\* output, and the ceiling it was given is effective_max_width.
ResizeDone == pc = "transcode" /\ log = <<"capture", "resolve", "resize">>
Ceiling == Unwrap(effective_max_width)
InImage == load_from_memory(raw).val
OutImage == load_from_memory(data).val

\* The call has returned Ok(data_url); `data` is final_data.
Returned == pc = "done" /\ IsSome(result) /\ Unwrap(result).ok
MimeLabel == Unwrap(result).val[2]

\* C1: in every successful call, for any format string, the MIME label of
\* the data URI is image/jpeg exactly when the payload came out of the JPEG
\* encoder, and image/png exactly when the payload is the PNG working bytes.
C1_MimeMatchesPayload ==
    Returned =>
        /\ MimeLabel = "image/jpeg" <=> (work # <<>> /\ Last(work) = "encode_jpeg")
        /\ MimeLabel = "image/jpeg" <=> data[1] = 255
        /\ MimeLabel = "image/png" <=> data[1] = 137

\* C3: for every image wider than the ceiling, the resize stage outputs an
\* image whose width is the ceiling exactly and whose height is
\* round(height * ceiling / width) within one pixel.  Stated for the
\* ceilings the data model admits (positive); ceiling 0 is C4's case.
C3_WidthEqualsCeiling ==
    (ResizeDone /\ Ceiling >= 1 /\ InImage.w > Ceiling) =>
        /\ OutImage.w = Ceiling
        /\ OutImage.h - RoundDiv(InImage.h * Ceiling, InImage.w) \in {-1, 0, 1}

\* C4 as stated: for every original size and every ceiling, 0 included, the
\* output of the resize stage is never wider than the original and never
\* wider than the ceiling.
C4_NeverWiderThanCeiling ==
    ResizeDone => OutImage.w <= InImage.w /\ OutImage.w <= Ceiling

\* C4 as amended: the output of the resize stage is never wider than the
\* original, and never wider than the ceiling or 1 pixel, whichever is
\* larger (at ceiling 0 the output is 1 pixel wide).
C4_NeverWiderThanCeilingOrOnePixel ==
    ResizeDone =>
        /\ OutImage.w <= InImage.w
        /\ OutImage.w <= Max(Ceiling, 1)
        /\ Ceiling = 0 => OutImage.w = 1

\* C4 witness: an image wider than a ceiling of at least 1 was resampled.
C4_Witness ==
    /\ ResizeDone
    /\ Ceiling >= 1
    /\ InImage.w > Ceiling
    /\ work = <<"decode", "resample", "encode_png">>
    /\ OutImage.w < InImage.w

\* The ceiling has been resolved.
Resolved == Len(log) >= 2

\* C7: the ceiling is the explicit max_width, verbatim (0 included), whatever
\* the environment holds; else the environment variable when it is set and
\* parses as an unsigned integer; else absent, and then the resize stage
\* never runs.
C7_CeilingPrecedence ==
    /\ Resolved =>
         /\ IsSome(max_width) => effective_max_width = max_width
         /\ (max_width = None /\ env.state = "set" /\ IsSome(ParseU32(env.value)))
               => effective_max_width = ParseU32(env.value)
         /\ (max_width = None /\ (env.state # "set" \/ ParseU32(env.value) = None))
               => effective_max_width = None
    /\ (\E i \in 1..Len(log) : log[i] = "resize") =>
         /\ Resolved
         /\ IsSome(effective_max_width)
    /\ (Resolved /\ effective_max_width = None) => "resample" \notin {work[i] : i \in 1..Len(work)}

\* C7 witness: an explicit max_width of 0 was used although the environment
\* variable holds a parseable 3.
C7_Witness ==
    /\ Resolved
    /\ max_width = Some(0)
    /\ env = [state |-> "set", value |-> <<"+", "3">>]
    /\ effective_max_width = Some(0)

\* C8: with no ceiling and format "png", a call whose capture succeeded
\* returns exactly data:image/png;base64,<base64 of the captured bytes>,
\* for every quality, and nothing was decoded, resampled or encoded.
C8_PngPassThrough ==
    (pc = "done" /\ Resolved /\ effective_max_width = None /\ format = "png") =>
        /\ result = Some(Ok(<<"data:", "image/png", ";base64,">> \o Base64Encode(raw)))
        /\ work = <<>>
        /\ data = raw

\* C8 witness: captured bytes that are no image at all (137, 80) come back
\* as data:image/png;base64,iVA= at quality 80.
C8_Witness ==
    /\ pc = "done"
    /\ effective_max_width = None
    /\ format = "png"
    /\ quality = 80
    /\ raw = <<137, 80>>
    /\ result = Some(Ok(<<"data:", "image/png", ";base64,", "i", "V", "A", "=">>))

\* The errors each stage can produce.
StageErrors(stage) ==
    CASE stage = "capture" ->
           {ScreenshotError("PlatformUnsupported", ""),
            ScreenshotError("CaptureFailed", "no image data")}
      [] stage = "resize" ->
           {ScreenshotError("ResizeFailed", "Failed to decode image"),
            ScreenshotError("ResizeFailed", "Failed to encode PNG")}
      [] stage = "transcode" ->
           {ScreenshotError("EncodeFailed", "Failed to decode PNG"),
            ScreenshotError("EncodeFailed", "Failed to encode JPEG")}
      [] OTHER -> {}

StageOrder(with_resize) ==
    IF with_resize
    THEN <<"capture", "resolve", "resize", "transcode", "package">>
    ELSE <<"capture", "resolve", "transcode", "package">>

IsPrefix(p, q) == Len(p) <= Len(q) /\ p = SubSeq(q, 1, Len(p))

\* C9: the stages run in the order capture, ceiling resolution, resize (only
\* with a ceiling), transcode, packaging; a failing stage ends the call with
\* its own error, unmodified, and no later stage runs; a data URI is
\* returned only when every stage has run.
C9_StageOrderAndShortCircuit ==
    /\ IsPrefix(log, StageOrder(IsSome(effective_max_width)))
    /\ Len(log) <= 2 => IsPrefix(log, StageOrder(FALSE))
    /\ pc # "done" => result = None
    /\ pc = "done" =>
         /\ IsSome(result)
         /\ ~ENABLED Next
         /\ Unwrap(result).ok => log = StageOrder(IsSome(effective_max_width))
         /\ ~Unwrap(result).ok => Unwrap(result).err \in StageErrors(Last(log))
    /\ (platform \notin SupportedOS /\ pc = "done") =>
         /\ log = <<"capture">>
         /\ result = Some(Err(ScreenshotError("PlatformUnsupported", "")))

\* C9 witness: the resize stage failed, and the call ended there with
\* ResizeFailed.
C9_Witness ==
    /\ pc = "done"
    /\ log = <<"capture", "resolve", "resize">>
    /\ result = Some(Err(ScreenshotError("ResizeFailed", "Failed to decode image")))

\* C10: for every decodable image no wider than the ceiling (equal widths
\* included), the resize stage returns its input bytes unchanged, having
\* neither resampled nor encoded.
C10_NoResizeIsIdentity ==
    (ResizeDone /\ InImage.w <= Ceiling) =>
        /\ data = raw
        /\ work = <<"decode">>

\* C10 witness: the resize stage returned for an image exactly as wide as
\* the ceiling.
C10_Witness ==
    /\ ResizeDone
    /\ InImage.w = Ceiling
    /\ data = raw

----------------------------------------------------------------------------
(* Properties of the window resize command (specification SpecWindow) *)

WinReturned == IsSome(win_result)
WinParams == Unwrap(win_call)
WinResolves == resolve_window(windows, WinParams.window_id).ok
WinTarget == windows[resolve_window(windows, WinParams.window_id).val]

\* C2 as stated: every request, an identifier that resolves to no window
\* included, returns a result object (Ok), which on a non-resizable window
\* has success = false and a non-empty error.
C2_NeverRaises ==
    WinReturned =>
        /\ Unwrap(win_result).ok
        /\ (WinResolves /\ WinTarget.resizable = "no") =>
             /\ Unwrap(win_result).val.success = FALSE
             /\ IsSome(Unwrap(win_result).val.error)
             /\ Unwrap(Unwrap(win_result).val.error) # <<>>

\* C2 as amended: a request returns a result object (Ok) whenever its window
\* identifier resolves, and always on mobile; on desktop an identifier that
\* resolves to no window returns Err with the resolution error.  On a
\* non-resizable window the result has success = false and a non-empty
\* error, and the window keeps its size.
C2_ResultObjectWhenWindowResolves ==
    WinReturned =>
        /\ (WinResolves \/ platform \in MobileOS) =>
             /\ Unwrap(win_result).ok
             /\ Unwrap(win_result).val.success \in BOOLEAN
             /\ Unwrap(win_result).val.success <=> Unwrap(win_result).val.error = None
        /\ (~WinResolves /\ platform \in DesktopOS) =>
             win_result = Some(Err(resolve_window(windows, WinParams.window_id).err))
        /\ (WinResolves /\ WinTarget.resizable = "no") =>
             /\ Unwrap(win_result).ok
             /\ Unwrap(win_result).val.success = FALSE
             /\ IsSome(Unwrap(win_result).val.error)
             /\ Unwrap(Unwrap(win_result).val.error) # <<>>
             /\ WinTarget.size = None

\* C2 witness: a desktop request on a non-resizable "settings" window came
\* back as a result object with the error set.
C2_Witness ==
    /\ WinReturned
    /\ platform \in DesktopOS
    /\ WinParams.window_id = Some("settings")
    /\ WinResolves
    /\ WinTarget.resizable = "no"
    /\ Unwrap(win_result).ok
    /\ Unwrap(win_result).val.success = FALSE
    /\ Unwrap(win_result).val.error = Some(<<"Window is not resizable">>)

----------------------------------------------------------------------------
(* Properties of port discovery (specification SpecPort) *)

\* The ports base_port .. base_port + 99 that exist and can be bound.
Bindable ==
    {p \in base_port..(base_port + max_attempts - 1) : p < U16Modulus /\ p \notin bound}

\* C5: find_available_port returns the first port of base_port,
\* base_port + 1, ... (at most 100 of them) that can be bound, and base_port
\* when none of them can.
C5_FirstBindablePort ==
    IsSome(port_result) =>
        /\ Unwrap(port_result).kind = "returned"
        /\ Unwrap(port_result).port =
             IF Bindable = {} THEN base_port
             ELSE CHOOSE p \in Bindable : \A q \in Bindable : p <= q

\* C6: for every base_port a u16 holds and every set of bound ports,
\* find_available_port completes and returns a port p with
\* base_port <= p <= base_port + 99.
C6_PortInRange ==
    IsSome(port_result) =>
        /\ Unwrap(port_result).kind = "returned"
        /\ base_port <= Unwrap(port_result).port
        /\ Unwrap(port_result).port <= base_port + max_attempts - 1

====
